---- MODULE Spec2Model ----
(***************************************************************************)
(* Model of the annotation subsystem of frontend/src/App.js: the key       *)
(* deriver, the annotation store with its load/migrate and save effects,   *)
(* the edit reducer, the clear action and the two exports.                 *)
(*                                                                         *)
(* JavaScript values are tagged records.  A JavaScript string is a         *)
(* sequence of one-character strings, so that template formatting,         *)
(* split('|'), parseInt and parseFloat are computed character by           *)
(* character.  A finite number is a decimal n * 10^e.                      *)
(***************************************************************************)
EXTENDS Integers, Sequences, FiniteSets, TLC

VARIABLES
    localStorage,       \* the item under ANNOTATIONS_STORAGE_KEY
    annotations,        \* useState({}) : ordered entries <<[k, v]>>
    annotationsLoaded,  \* useState(false)
    savePending,        \* the [annotations] effect is scheduled
    mounted,            \* the mount effects have run
    uploadResult,       \* useState(null)
    uploadError,        \* useState(null), TRUE when a message is set
    loading,            \* useState(false)
    files,              \* useState([]), TRUE when files are selected
    url,                \* useState(''), TRUE when url.trim() is not empty
    lastEvent,          \* the handler or effect that ran last, with its arguments
    download,           \* the file handed to the browser by the last step
    probe,              \* the input of a pure-function specification
    background          \* the component state of a second page instance

vars == <<localStorage, annotations, annotationsLoaded, savePending, mounted,
          uploadResult, uploadError, loading, files, url, lastEvent, download, probe,
          background>>

----------------------------------------------------------------------------
(* Bounds of the model *)

\* the largest number of entries the in-memory store is driven to by edits
MaxEntries == 2

----------------------------------------------------------------------------
(* JavaScript values *)

Undefined == [t |-> "undefined"]
Null == [t |-> "null"]
NaN == [t |-> "nan"]
Infinity == [t |-> "infinity"]
NegInfinity == [t |-> "-infinity"]

\* The finite number n * 10^e.  A number is kept in one form: n is not a
\* multiple of 10, and zero is 0 * 10^0 (-0 is not told from 0: no operator of
\* the program does).  A double is named by its shortest decimal, which is
\* exact for the numbers of at most 15 significant digits.
RECURSIVE Dec(_, _)
Dec(n, e) ==
    IF n = 0 THEN [t |-> "number", n |-> 0, e |-> 0]
    ELSE IF n % 10 = 0 THEN Dec(n \div 10, e + 1)
    ELSE [t |-> "number", n |-> n, e |-> e]

\* the integer n
Num(n) == Dec(n, 0)

Str(s) == [t |-> "string", s |-> s]
Bool(b) == [t |-> "boolean", b |-> b]
\* an object with fixed property names: p is a function from names to values
Obj(p) == [t |-> "object", p |-> p]
\* an object used as a dictionary: e is the sequence of its own entries, in
\* property order
Map(e) == [t |-> "map", e |-> e]
Arr(e) == [t |-> "array", e |-> e]
\* a built-in function, such as the methods of Object.prototype
Function(name) == [t |-> "function", name |-> name]

EmptyStr == Str(<< >>)

\* typeof v
TypeOf(v) ==
    CASE v.t = "undefined" -> "undefined"
      [] v.t \in {"number", "nan", "infinity", "-infinity"} -> "number"
      [] v.t = "string" -> "string"
      [] v.t = "boolean" -> "boolean"
      [] v.t = "function" -> "function"
      [] OTHER -> "object"

\* ToBoolean(v), the test of if (v), !v, v || d
Truthy(v) ==
    CASE v.t \in {"undefined", "null", "nan"} -> FALSE
      [] v.t = "number" -> v.n # 0
      [] v.t = "string" -> v.s # << >>
      [] v.t = "boolean" -> v.b
      [] OTHER -> TRUE

\* v || d
OrElse(v, d) == IF Truthy(v) THEN v ELSE d

\* v ?? d
Coalesce(v, d) == IF v.t \in {"undefined", "null"} THEN d ELSE v

\* v?.name for a property name of an annotation object or of an occurrence;
\* a built-in function has none of these names
OptProp(v, name) ==
    IF v.t = "object" /\ name \in DOMAIN v.p THEN v.p[name] ELSE Undefined

RECURSIVE Pow10(_)
Pow10(k) == IF k = 0 THEN 1 ELSE 10 * Pow10(k - 1)

\* the sign of x - y for two finite numbers
SignOfDifference(x, y) ==
    LET m == IF x.e < y.e THEN x.e ELSE y.e
        d == x.n * Pow10(x.e - m) - y.n * Pow10(y.e - m)
    IN  IF d < 0 THEN -1 ELSE IF d > 0 THEN 1 ELSE 0

\* x - y for two values that are typeof 'number'.  The difference of two
\* integers is exact; the difference of fractions is rounded, which keeps its
\* sign: it is a number of which the sign alone is known.
Subtract(x, y) ==
    CASE x.t = "nan" \/ y.t = "nan" -> NaN
      [] x.t = "infinity" -> IF y.t = "infinity" THEN NaN ELSE Infinity
      [] x.t = "-infinity" -> IF y.t = "-infinity" THEN NaN ELSE NegInfinity
      [] y.t = "infinity" -> NegInfinity
      [] y.t = "-infinity" -> Infinity
      [] x.e >= 0 /\ y.e >= 0 -> Num(x.n * Pow10(x.e) - y.n * Pow10(y.e))
      [] OTHER -> [t |-> "number", sign |-> SignOfDifference(x, y)]

\* v < 0, the test a sort makes of what its comparator returns
Negative(v) ==
    \/ v = NegInfinity
    \/ v.t = "number" /\ (IF "sign" \in DOMAIN v THEN v.sign < 0 ELSE v.n < 0)

----------------------------------------------------------------------------
(* Strings *)

DigitChars == <<"0", "1", "2", "3", "4", "5", "6", "7", "8", "9">>

IsDigit(c) == \E d \in 1..10 : DigitChars[d] = c

DigitValue(c) == (CHOOSE d \in 1..10 : DigitChars[d] = c) - 1

RECURSIVE NatToString(_)
NatToString(n) ==
    IF n < 10 THEN <<DigitChars[n + 1]>>
    ELSE NatToString(n \div 10) \o <<DigitChars[(n % 10) + 1]>>

\* Number::toString of a finite number: with digits d1..dk and the decimal
\* point after position pos, plain notation for 0 < pos <= 21, a leading
\* "0." for -6 < pos <= 0, and exponent notation otherwise
NumberToString(v) ==
    LET Zeros(z) == [i \in 1..z |-> "0"]
        Exponent(x) == (IF x < 0 THEN <<"e", "-">> ELSE <<"e", "+">>)
                          \o NatToString(IF x < 0 THEN 0 - x ELSE x)
        Format(sign, digits, k, pos) ==
            sign \o
            (CASE k <= pos /\ pos <= 21 -> digits \o Zeros(pos - k)
               [] 0 < pos /\ pos < k -> SubSeq(digits, 1, pos) \o <<".">>
                                          \o SubSeq(digits, pos + 1, k)
               [] -6 < pos /\ pos <= 0 -> <<"0", ".">> \o Zeros(0 - pos) \o digits
               [] OTHER -> IF k = 1 THEN digits \o Exponent(pos - 1)
                           ELSE <<digits[1], ".">> \o SubSeq(digits, 2, k)
                                  \o Exponent(pos - 1))
        WithDigits(sign, digits) == Format(sign, digits, Len(digits), Len(digits) + v.e)
    IN  WithDigits(IF v.n < 0 THEN <<"-">> ELSE << >>,
                   NatToString(IF v.n < 0 THEN 0 - v.n ELSE v.n))

\* the string a template literal `${v}` puts in place of v: ToString(v).  An
\* array is the join of its elements with ",", null and undefined elements
\* giving the empty string.
RECURSIVE TemplateString(_)
RECURSIVE JoinFrom(_, _)
JoinFrom(elements, i) ==
    IF i > Len(elements) THEN << >>
    ELSE (IF i > 1 THEN <<",">> ELSE << >>)
           \o (IF elements[i].t \in {"undefined", "null"} THEN << >>
               ELSE TemplateString(elements[i]))
           \o JoinFrom(elements, i + 1)

TemplateString(v) ==
    CASE v.t = "string" -> v.s
      [] v.t = "number" -> NumberToString(v)
      [] v.t = "nan" -> <<"N", "a", "N">>
      [] v.t = "infinity" -> <<"I", "n", "f", "i", "n", "i", "t", "y">>
      [] v.t = "-infinity" -> <<"-">> \o <<"I", "n", "f", "i", "n", "i", "t", "y">>
      [] v.t = "null" -> <<"n", "u", "l", "l">>
      [] v.t = "undefined" -> <<"u", "n", "d", "e", "f", "i", "n", "e", "d">>
      [] v.t = "boolean" -> IF v.b THEN <<"t", "r", "u", "e">>
                            ELSE <<"f", "a", "l", "s", "e">>
      [] v.t \in {"object", "map"} -> <<"[", "o", "b", "j", "e", "c", "t", " ", "O", "b", "j", "e", "c", "t", "]">>
      [] v.t = "array" -> JoinFrom(v.e, 1)

NA == <<"n", "a">>
ACCEPT == <<"a", "c", "c", "e", "p", "t">>
REJECT == <<"r", "e", "j", "e", "c", "t">>

----------------------------------------------------------------------------
(* Objects used as dictionaries: ordered own entries <<[k |-> key, v |-> value]>> *)

\* Object.prototype.hasOwnProperty.call(m, key)
HasKey(m, key) == \E i \in 1..Len(m) : m[i].k = key

\* the names of the methods every object inherits from Object.prototype
PrototypeMethods ==
    {<<"c", "o", "n", "s", "t", "r", "u", "c", "t", "o", "r">>,
     <<"t", "o", "S", "t", "r", "i", "n", "g">>,
     <<"t", "o", "L", "o", "c", "a", "l", "e", "S", "t", "r", "i", "n", "g">>,
     <<"v", "a", "l", "u", "e", "O", "f">>,
     <<"h", "a", "s", "O", "w", "n", "P", "r", "o", "p", "e", "r", "t", "y">>,
     <<"i", "s", "P", "r", "o", "t", "o", "t", "y", "p", "e", "O", "f">>,
     <<"p", "r", "o", "p", "e", "r", "t", "y", "I", "s", "E", "n", "u", "m", "e", "r", "a", "b", "l", "e">>,
     <<"_", "_", "d", "e", "f", "i", "n", "e", "G", "e", "t", "t", "e", "r", "_", "_">>,
     <<"_", "_", "d", "e", "f", "i", "n", "e", "S", "e", "t", "t", "e", "r", "_", "_">>,
     <<"_", "_", "l", "o", "o", "k", "u", "p", "G", "e", "t", "t", "e", "r", "_", "_">>,
     <<"_", "_", "l", "o", "o", "k", "u", "p", "S", "e", "t", "t", "e", "r", "_", "_">>}

PROTO == <<"_", "_", "p", "r", "o", "t", "o", "_", "_">>

\* m[key], for a plain object m: an own property, or a property inherited from
\* Object.prototype (__proto__ reads Object.prototype itself)
Lookup(m, key) ==
    IF HasKey(m, key) THEN m[CHOOSE i \in 1..Len(m) : m[i].k = key].v
    ELSE IF key \in PrototypeMethods THEN Function(key)
    ELSE IF key = PROTO THEN Obj(<< >>)
    ELSE Undefined

\* key is an array index: the canonical decimal string of an integer from 0
\* to 2^32 - 2
\* a < b for two canonical decimal strings
IndexLess(a, b) ==
    \/ Len(a) < Len(b)
    \/ /\ Len(a) = Len(b)
       /\ \E i \in 1..Len(a) :
            /\ DigitValue(a[i]) < DigitValue(b[i])
            /\ \A j \in 1..(i - 1) : a[j] = b[j]

IsArrayIndex(key) ==
    /\ key # << >>
    /\ \A i \in 1..Len(key) : IsDigit(key[i])
    /\ key[1] = "0" => Len(key) = 1
    /\ ~IndexLess(<<"4", "2", "9", "4", "9", "6", "7", "2", "9", "4">>, key)

\* CreateDataProperty(m, key, value): an existing property keeps its place; a
\* new array index goes among the array indices, which come first in
\* ascending order; any other new key is added last
Define(m, key, value) ==
    IF HasKey(m, key)
    THEN [i \in 1..Len(m) |-> IF m[i].k = key THEN [k |-> key, v |-> value] ELSE m[i]]
    ELSE IF IsArrayIndex(key)
    THEN LET before == SelectSeq(m, LAMBDA x : IsArrayIndex(x.k) /\ IndexLess(x.k, key))
             after == SelectSeq(m, LAMBDA x : ~(IsArrayIndex(x.k) /\ IndexLess(x.k, key)))
         IN  before \o <<[k |-> key, v |-> value]>> \o after
    ELSE Append(m, [k |-> key, v |-> value])

\* m[key] = value, for a plain object m.  The key __proto__ is the setter of
\* Object.prototype: it gives m a prototype and no own property (the
\* prototype it gives is not kept: the program reads m with keys of its key
\* deriver, which hold a '|', and no prototype has such a name).
Assign(m, key, value) == IF key = PROTO THEN m ELSE Define(m, key, value)

\* delete m[key]
Delete(m, key) == SelectSeq(m, LAMBDA e : e.k # key)

KeysOf(m) == {m[i].k : i \in 1..Len(m)}

\* Object.entries(v) of a parsed JSON value that is typeof 'object'
ObjectEntries(v) ==
    CASE v.t = "map" -> v.e
      [] v.t = "array" -> [i \in 1..Len(v.e) |-> [k |-> NatToString(i - 1), v |-> v.e[i]]]
      [] OTHER -> << >>

\* { ...obj, [name]: value }
SpreadWith(obj, name, value) ==
    Obj([x \in (DOMAIN obj.p) \cup {name} |-> IF x = name THEN value ELSE obj.p[x]])

\* { annotation: a, alternative: b, comments: c }
Annotation(a, b, c) == Obj([annotation |-> a, alternative |-> b, comments |-> c])

EmptyAnnotation == Annotation(EmptyStr, EmptyStr, EmptyStr)

----------------------------------------------------------------------------
(* Key deriver *)

\* a variant of getAnnotationKey that also puts the name into the key
getAnnotationKeyWithName(occurrence) ==
    TemplateString(Coalesce(occurrence.p.aphiaid, Str(NA))) \o <<"|">>
      \o TemplateString(Coalesce(occurrence.p.decimalLongitude, Str(NA))) \o <<"|">>
      \o TemplateString(Coalesce(occurrence.p.decimalLatitude, Str(NA)))
      \o TemplateString(Coalesce(occurrence.p.scientificName, Str(NA)))

getAnnotationKey(occurrence) ==
    LET aphiaid == Coalesce(occurrence.p.aphiaid, Str(NA))
        lon == Coalesce(occurrence.p.decimalLongitude, Str(NA))
        lat == Coalesce(occurrence.p.decimalLatitude, Str(NA))
    IN  TemplateString(aphiaid) \o <<"|">> \o TemplateString(lon) \o <<"|">>
          \o TemplateString(lat)

----------------------------------------------------------------------------
(* Persistent storage: the item under ANNOTATIONS_STORAGE_KEY is absent, or  *)
(* a text.  A text is the empty string, a text that is not JSON, or the JSON *)
(* text of a value.                                                          *)

NoItem == [text |-> "none"]
EmptyText == [text |-> "empty"]
GarbageText == [text |-> "garbage"]
JsonText(doc) == [text |-> "json", doc |-> doc]

\* JSON.stringify(annotations) of the in-memory map: every own entry in
\* order, a property whose value is undefined left out, NaN and the
\* infinities written as null
StringifyValue(v) == IF v.t \in {"nan", "infinity", "-infinity"} THEN Null ELSE v

StringifyObject(obj) ==
    LET kept == {x \in DOMAIN obj.p : obj.p[x].t # "undefined"}
    IN  Obj([x \in kept |-> StringifyValue(obj.p[x])])

\* a stringify that drops the entries whose decision is empty
JSONstringifyDecided(m) ==
    JsonText(Map([i \in 1..Len(SelectSeq(m, LAMBDA e : Truthy(e.v.p.annotation))) |->
        LET e == SelectSeq(m, LAMBDA x : Truthy(x.v.p.annotation))[i]
        IN  [k |-> e.k, v |-> StringifyObject(e.v)]]))

JSONstringify(m) ==
    JsonText(Map([i \in 1..Len(m) |-> [k |-> m[i].k, v |-> StringifyObject(m[i].v)]]))

\* JSON.parse(stored) throws
ParseThrows(stored) == stored.text # "json"

\* the own properties JSON.parse defines for the members of an object text,
\* in the order of the text
RECURSIVE DefineAll(_, _)
DefineAll(members, m) ==
    IF members = << >> THEN m
    ELSE DefineAll(Tail(members), Define(m, Head(members).k, Head(members).v))

\* JSON.parse(stored)
JSONparse(stored) ==
    IF stored.doc.t = "map" THEN Map(DefineAll(stored.doc.e, << >>)) ELSE stored.doc

\* a migration without the typeof test: every value is taken for a decision
MigrateValueAlwaysWrap(value) == Annotation(value, EmptyStr, EmptyStr)

\* a migration that does not carry the comments of an object over
MigrateValueDropsComments(value) ==
    IF TypeOf(value) = "string"
    THEN Annotation(value, EmptyStr, EmptyStr)
    ELSE Annotation(OrElse(OptProp(value, "annotation"), EmptyStr),
                    OrElse(OptProp(value, "alternative"), EmptyStr),
                    EmptyStr)

\* the body of the migration loop, for one entry value
MigrateValue(value) ==
    IF TypeOf(value) = "string"
    THEN Annotation(value, EmptyStr, EmptyStr)
    ELSE Annotation(OrElse(OptProp(value, "annotation"), EmptyStr),
                    OrElse(OptProp(value, "alternative"), EmptyStr),
                    OrElse(OptProp(value, "comments"), EmptyStr))

\* the migration loop: migrated[key] = ... for each entry of parsed, in order
RECURSIVE MigrateFrom(_, _)
MigrateFrom(entries, migrated) ==
    IF entries = << >> THEN migrated
    ELSE MigrateFrom(Tail(entries),
                     Assign(migrated, Head(entries).k, MigrateValue(Head(entries).v)))

Migrate(parsed) == MigrateFrom(ObjectEntries(parsed), << >>)

----------------------------------------------------------------------------
(* Edit reducer: the updater handleAnnotationChange passes to setAnnotations *)

AllEmpty(obj) ==
    /\ ~Truthy(obj.p.annotation)
    /\ ~Truthy(obj.p.alternative)
    /\ ~Truthy(obj.p.comments)

\* an updater that never removes an entry
AnnotationChangeNoPrune(prev, key, field, value) ==
    Assign(prev, key,
           SpreadWith(OrElse(Lookup(prev, key), EmptyAnnotation), field,
                      OrElse(value, EmptyStr)))

\* an updater that builds the entry from the empty default, not from the
\* entry the key has
AnnotationChangeResets(prev, key, field, value) ==
    LET set == Assign(prev, key,
                      SpreadWith(EmptyAnnotation, field, OrElse(value, EmptyStr)))
    IN  IF AllEmpty(Lookup(set, key)) THEN Delete(set, key) ELSE set

AnnotationChange(prev, key, field, value) ==
    LET next == prev
        current == OrElse(Lookup(next, key), EmptyAnnotation)
    IN  IF field = "annotation"
        THEN IF ~Truthy(value)
             THEN IF ~Truthy(current.p.alternative) /\ ~Truthy(current.p.comments)
                  THEN Delete(next, key)
                  ELSE Assign(next, key, SpreadWith(current, "annotation", EmptyStr))
             ELSE Assign(next, key, SpreadWith(current, "annotation", value))
        ELSE LET set == Assign(next, key,
                               SpreadWith(current, field, OrElse(value, EmptyStr)))
             IN  IF AllEmpty(Lookup(set, key)) THEN Delete(set, key) ELSE set

----------------------------------------------------------------------------
(* Inputs *)

Chr(c) == Str(<<c>>)

Occurrence(aphiaid, lon, lat, name, density, suitability) ==
    Obj([aphiaid |-> aphiaid, scientificName |-> name,
         scientificNameID |-> Undefined, phylum |-> Chr("P"), class |-> Null,
         decimalLongitude |-> lon, decimalLatitude |-> lat,
         footprintWKT |-> Undefined, density |-> density,
         suitability |-> suitability])

\* a record at longitude 2.5
Occ1 == Occurrence(Num(12), Dec(25, -1), Num(-3), Chr("A"), Num(3), Num(1))
\* the same place and taxon as Occ1 in another analysis run
Occ2 == Occurrence(Num(12), Dec(25, -1), Num(-3), Chr("B"), Null, Num(0))
Occ3 == Occurrence(Null, Num(0), Undefined, Undefined, Num(0), Undefined)
\* response.data of the upload request
ResultOf(rows) == [processing |-> [analyzed_occurrences |-> Arr(rows)]]
ResultNoOccurrences == [processing |-> [analyzed_occurrences |-> Undefined]]

Responses ==
    {ResultOf(<<Occ1, Occ3>>), ResultOf(<<Occ2, Occ3, Occ1>>), ResultOf(<< >>),
     ResultNoOccurrences}

\* uploadResult?.processing?.analyzed_occurrences
AnalyzedOccurrences(result) ==
    IF result = Null THEN Undefined ELSE result.processing.analyzed_occurrences

Key1 == getAnnotationKey(Occ1)
Key3 == getAnnotationKey(Occ3)
\* a key of no occurrence of any response
StaleKey == <<"9", "|", "9", "|", "9">>
Seven == <<"7">>
Ok == <<"o", "k">>

\* what the select and the two text inputs of a row can send
EditInputs ==
    ({"annotation"} \X {EmptyStr, Str(ACCEPT), Str(REJECT)})
      \cup ({"alternative"} \X {EmptyStr, Str(Seven)})
      \cup ({"comments"} \X {EmptyStr, Str(Ok)})

Entry(key, value) == [k |-> key, v |-> value]

\* persisted maps: legacy, current and mixed shapes, and damaged entries
StoredMaps ==
    { << >>,
      <<Entry(Key1, Str(ACCEPT)), Entry(StaleKey, Str(REJECT)),
        Entry(Key3, Annotation(EmptyStr, Str(<<"7", "a">>), EmptyStr))>>,
      <<Entry(Key1, Annotation(Str(ACCEPT), Str(Seven), Str(Ok)))>>,
      <<Entry(StaleKey, Annotation(Str(REJECT), EmptyStr, EmptyStr))>>,
      <<Entry(Key1, Str(REJECT)),
        Entry(Key3, Annotation(Str(ACCEPT), EmptyStr, EmptyStr))>>,
      <<Entry(Key1, EmptyStr), Entry(Key3, Null)>>,
      <<Entry(Key1, Obj([annotation |-> Str(ACCEPT)])),
        Entry(StaleKey, Obj([comments |-> Str(Ok), extra |-> Num(1)]))>>,
      <<Entry(Key3, Str(<<"m", "a", "y", "b", "e">>))>>,
      <<Entry(Key1, Obj([annotation |-> Num(5), alternative |-> Null,
                         comments |-> EmptyStr])),
        Entry(Key3, Num(4))>>,
      \* keys no key deriver made: __proto__ and the name of a method of
      \* Object.prototype
      <<Entry(PROTO, Str(ACCEPT)), Entry(<<"c", "o", "n", "s", "t", "r", "u", "c", "t", "o", "r">>, Str(REJECT))>> }

\* what the storage can hold when the page starts
StoredItems ==
    {NoItem, EmptyText, GarbageText, JsonText(Null), JsonText(Num(5)),
     JsonText(Chr("x")), JsonText(Bool(TRUE)),
     JsonText(Arr(<<Str(ACCEPT), Annotation(Str(REJECT), EmptyStr, Str(Ok))>>))}
      \cup {JsonText(Map(m)) : m \in StoredMaps}

----------------------------------------------------------------------------
(* Parsing a key back *)

\* key.split(sep), for a one-character separator
RECURSIVE SplitFrom(_, _, _)
SplitFrom(s, sep, current) ==
    IF s = << >> THEN <<current>>
    ELSE IF Head(s) = sep THEN <<current>> \o SplitFrom(Tail(s), sep, << >>)
    ELSE SplitFrom(Tail(s), sep, Append(current, Head(s)))

Split(s, sep) == SplitFrom(s, sep, << >>)

\* the i-th element of a destructured array
Element(parts, i) == IF i <= Len(parts) THEN Str(parts[i]) ELSE Undefined

\* StrWhiteSpaceChar: the white space and line terminators parseInt and
\* parseFloat skip.  A character TLA+ cannot write is named by its code point.
RECURSIVE SkipSpaces(_)
SkipSpaces(s) ==
    LET WhiteSpaceChars ==
            {" ", "\t", "\n", "\r", "\f", "U+000B", "U+00A0", "U+FEFF", "U+1680",
             "U+2000", "U+2001", "U+2002", "U+2003", "U+2004", "U+2005", "U+2006",
             "U+2007", "U+2008", "U+2009", "U+200A", "U+2028", "U+2029", "U+202F",
             "U+205F", "U+3000"}
    IN  IF s # << >> /\ Head(s) \in WhiteSpaceChars THEN SkipSpaces(Tail(s)) ELSE s

\* the value of the longest prefix of decimal digits, with how many there are
\* and what follows them
RECURSIVE DigitsPrefix(_, _, _)
DigitsPrefix(s, value, count) ==
    IF s # << >> /\ IsDigit(Head(s))
    THEN DigitsPrefix(Tail(s), value * 10 + DigitValue(Head(s)), count + 1)
    ELSE [value |-> value, count |-> count, rest |-> s]

\* the decimal integer a string starts with, after white space and a sign;
\* NaN when no digit follows
ParseDecimalPrefix(v) ==
    LET Signed(negative, digits) ==
            IF digits.count = 0 THEN NaN
            ELSE Num(IF negative THEN 0 - digits.value ELSE digits.value)
        Trimmed(s) ==
            Signed(s # << >> /\ Head(s) = "-",
                   DigitsPrefix(IF s # << >> /\ Head(s) \in {"-", "+"} THEN Tail(s)
                                ELSE s, 0, 0))
    IN  Trimmed(SkipSpaces(TemplateString(v)))

\* parseInt(v, 10)
ParseInt(v) == ParseDecimalPrefix(v)

\* parseFloat(v): the longest prefix of the trimmed string that is a
\* StrDecimalLiteral: a sign, then Infinity, or digits with an optional
\* fraction and exponent, or a fraction with an optional exponent.  The value
\* is defined for the doubles the decimal names exactly: those between 1e-300
\* and 1e300.
ParseFloat(v) ==
    LET \* the digits of whole and fraction make the integer mantissa; fractions
        \* is how many of them follow the point
        Finite(negative, mantissa, fractions, exponentPart) ==
            CASE mantissa = 0
                   \/ (LET position == Len(NatToString(mantissa)) + exponentPart - fractions
                       IN  position > -300 /\ position < 300) ->
                 Dec(IF negative THEN 0 - mantissa ELSE mantissa, exponentPart - fractions)
        \* the ExponentPart: e or E, an optional sign and at least one digit
        Exponent(marked, minus, part) ==
            IF marked /\ part.count > 0
            THEN IF minus THEN 0 - part.value ELSE part.value
            ELSE 0
        ExponentOf(rest) ==
            IF rest # << >> /\ Head(rest) \in {"e", "E"}
            THEN IF Len(rest) > 1 /\ rest[2] \in {"-", "+"}
                 THEN Exponent(TRUE, rest[2] = "-", DigitsPrefix(SubSeq(rest, 3, Len(rest)), 0, 0))
                 ELSE Exponent(TRUE, FALSE, DigitsPrefix(Tail(rest), 0, 0))
            ELSE 0
        Fraction(negative, whole, fraction) ==
            IF whole.count + fraction.count = 0 THEN NaN
            ELSE Finite(negative, fraction.value, fraction.count, ExponentOf(fraction.rest))
        Whole(negative, whole) ==
            Fraction(negative, whole,
                     IF whole.rest # << >> /\ Head(whole.rest) = "."
                     THEN DigitsPrefix(Tail(whole.rest), whole.value, 0)
                     ELSE [value |-> whole.value, count |-> 0, rest |-> whole.rest])
        Unsigned(negative, s) ==
            IF Len(s) >= 8 /\ SubSeq(s, 1, 8) = <<"I", "n", "f", "i", "n", "i", "t", "y">>
            THEN IF negative THEN NegInfinity ELSE Infinity
            ELSE Whole(negative, DigitsPrefix(s, 0, 0))
        Trimmed(s) ==
            Unsigned(s # << >> /\ Head(s) = "-",
                     IF s # << >> /\ Head(s) \in {"-", "+"} THEN Tail(s) ELSE s)
    IN  Trimmed(SkipSpaces(TemplateString(v)))

\* a !== b
StrictNotEqual(a, b) == a.t = "nan" \/ b.t = "nan" \/ a # b

----------------------------------------------------------------------------
(* Export *)

\* an occurrenceMap in which the first occurrence of each key wins
RECURSIVE OccurrenceMapFirstWins(_, _)
OccurrenceMapFirstWins(rows, map) ==
    IF rows = << >> THEN map
    ELSE OccurrenceMapFirstWins(Tail(rows),
             IF HasKey(map, getAnnotationKey(Head(rows))) THEN map
             ELSE Assign(map, getAnnotationKey(Head(rows)), Head(rows)))

\* occurrenceMap: the last occurrence of each key wins
RECURSIVE OccurrenceMapFrom(_, _)
OccurrenceMapFrom(rows, map) ==
    IF rows = << >> THEN map
    ELSE OccurrenceMapFrom(Tail(rows),
                           Assign(map, getAnnotationKey(Head(rows)), Head(rows)))

OccurrenceMap(rows) == OccurrenceMapFrom(rows, << >>)

\* the three components parsed back from a key
KeyAphiaid(key) ==
    LET aphiaidStr == Element(Split(key, "|"), 1)
    IN  IF aphiaidStr # Str(NA) THEN ParseInt(aphiaidStr) ELSE Null

KeyLon(key) ==
    LET lonStr == Element(Split(key, "|"), 2)
    IN  IF lonStr # Str(NA) THEN ParseFloat(lonStr) ELSE Null

KeyLat(key) ==
    LET latStr == Element(Split(key, "|"), 3)
    IN  IF latStr # Str(NA) THEN ParseFloat(latStr) ELSE Null

\* typeof annotationData === 'string' ? annotationData : annotationData?.annotation || ''
AnnotationValue(annotationData) ==
    IF TypeOf(annotationData) = "string" THEN annotationData
    ELSE OrElse(OptProp(annotationData, "annotation"), EmptyStr)

\* typeof annotationData === 'object' ? (annotationData?.name || '') : ''
TextValue(annotationData, name) ==
    IF TypeOf(annotationData) = "object"
    THEN OrElse(OptProp(annotationData, name), EmptyStr)
    ELSE EmptyStr

\* a filter that keeps every annotation of a current occurrence
IncludedAnyDecision(key, annotationData, occurrenceMap) ==
    Truthy(OrElse(Lookup(occurrenceMap, key), Null))

\* the two early returns of the map callback: an entry is kept when the key
\* has an occurrence and the decision is accept or reject
Included(key, annotationData, occurrenceMap) ==
    /\ Truthy(OrElse(Lookup(occurrenceMap, key), Null))
    /\ AnnotationValue(annotationData) \in {Str(ACCEPT), Str(REJECT)}

\* the object the map callback of handleDownloadAnnotations returns
CurrentItem(key, annotationData, occurrence) ==
    [aphiaid |-> KeyAphiaid(key),
     scientificName |-> OrElse(OptProp(occurrence, "scientificName"), Null),
     scientificNameID |-> OrElse(OptProp(occurrence, "scientificNameID"), Null),
     phylum |-> OrElse(OptProp(occurrence, "phylum"), Null),
     class |-> OrElse(OptProp(occurrence, "class"), Null),
     decimalLongitude |-> KeyLon(key),
     decimalLatitude |-> KeyLat(key),
     footprintWKT |-> OrElse(OptProp(occurrence, "footprintWKT"), Null),
     density |-> OrElse(OptProp(occurrence, "density"), Null),
     suitability |-> OrElse(OptProp(occurrence, "suitability"), Null),
     annotation |-> OrElse(AnnotationValue(annotationData), Null),
     alternative |-> OrElse(TextValue(annotationData, "alternative"), Null),
     comments |-> OrElse(TextValue(annotationData, "comments"), Null)]

\* let newAphiaID = null; if (alternative) { parsed = parseInt(...) ... }
NewAphiaID(alternative) ==
    IF Truthy(alternative) /\ ParseInt(alternative).t # "nan"
    THEN ParseInt(alternative) ELSE Null

\* a remove field that is set for every entry
WithRemoveAlways(result, annotationValue, alternative) ==
    [x \in (DOMAIN result) \cup {"remove"} |->
        IF x = "remove" THEN Bool(~Truthy(alternative)) ELSE result[x]]

\* if (annotationValue === 'reject') result.remove = alternative ? false : true
WithRemove(result, annotationValue, alternative) ==
    IF annotationValue = Str(REJECT)
    THEN [x \in (DOMAIN result) \cup {"remove"} |->
            IF x = "remove" THEN Bool(~Truthy(alternative)) ELSE result[x]]
    ELSE result

\* the object the map callback of handleDownloadAnnotationsOldFormat returns
OldFormatItem(key, annotationData, occurrence) ==
    LET annotationValue == AnnotationValue(annotationData)
        alternative == TextValue(annotationData, "alternative")
        result ==
            [scientificName |-> OrElse(OptProp(occurrence, "scientificName"), Null),
             scientificNameID |-> OrElse(OptProp(occurrence, "scientificNameID"), Null),
             phylum |-> OrElse(OptProp(occurrence, "phylum"), Null),
             class |-> OrElse(OptProp(occurrence, "class"), Null),
             decimalLongitude |-> KeyLon(key),
             decimalLatitude |-> KeyLat(key),
             footprintWKT |-> OrElse(OptProp(occurrence, "footprintWKT"), Null),
             density |-> OrElse(OptProp(occurrence, "density"), Null),
             suitability |-> OrElse(OptProp(occurrence, "suitability"), Null),
             annotation |-> OrElse(annotationValue, Null),
             AphiaID |-> KeyAphiaid(key),
             new_AphiaID |-> NewAphiaID(alternative),
             comments |-> OrElse(TextValue(annotationData, "comments"), Null)]
    IN  WithRemove(result, annotationValue, alternative)

\* item.name, undefined when the item has no such property
Field(item, name) == IF name \in DOMAIN item THEN item[name] ELSE Undefined

\* (a || 0) - (b || 0)
Difference(a, b) == Subtract(OrElse(a, Num(0)), OrElse(b, Num(0)))

\* the comparator both handlers pass to sort; it reads a.aphiaid,
\* a.decimalLongitude and a.decimalLatitude
Compare(a, b) ==
    IF StrictNotEqual(Field(a, "aphiaid"), Field(b, "aphiaid"))
    THEN Difference(Field(a, "aphiaid"), Field(b, "aphiaid"))
    ELSE IF StrictNotEqual(Field(a, "decimalLongitude"), Field(b, "decimalLongitude"))
    THEN Difference(Field(a, "decimalLongitude"), Field(b, "decimalLongitude"))
    ELSE Difference(Field(a, "decimalLatitude"), Field(b, "decimalLatitude"))

\* SortCompare: how the sort reads what the comparator returns for the
\* elements i and j of items; NaN counts as 0
SortCompare(items, i, j) ==
    LET v == Compare(items[i], items[j])
        positive == \/ v = Infinity
                    \/ v.t = "number" /\ (IF "sign" \in DOMAIN v THEN v.sign > 0
                                           ELSE v.n > 0)
    IN  IF Negative(v) THEN -1 ELSE IF positive THEN 1 ELSE 0

\* the comparator is a consistent comparator for the elements of items; only
\* then does ECMAScript fix the order sort leaves them in
ConsistentComparator(items) ==
    LET n == Len(items)
        c(i, j) == SortCompare(items, i, j)
    IN  /\ \A i \in 1..n : c(i, i) = 0
        /\ \A i, j \in 1..n : c(i, j) = 0 => c(j, i) = 0
        /\ \A i, j, k \in 1..n :
             /\ (c(i, j) = 0 /\ c(j, k) = 0) => c(i, k) = 0
             /\ (c(i, j) < 0 /\ c(j, k) < 0) => c(i, k) < 0
             /\ (c(i, j) > 0 /\ c(j, k) > 0) => c(i, k) > 0

\* the stable order of a consistent comparator: each element, in turn, is put
\* after the elements it does not sort before.  The elements are named by
\* their places in items.
RECURSIVE InsertSorted(_, _, _)
InsertSorted(items, sorted, i) ==
    IF sorted = << >> THEN <<i>>
    ELSE IF SortCompare(items, i, sorted[Len(sorted)]) < 0
    THEN Append(InsertSorted(items, SubSeq(sorted, 1, Len(sorted) - 1), i),
                sorted[Len(sorted)])
    ELSE Append(sorted, i)

RECURSIVE SortFrom(_, _, _)
SortFrom(items, i, sorted) ==
    IF i > Len(items) THEN sorted
    ELSE SortFrom(items, i + 1, InsertSorted(items, sorted, i))

\* Array.prototype.sort, as the orders it can leave the elements in: the
\* stable sorted order when the comparator is consistent for them, and an
\* order the implementation defines, any permutation, when it is not
SortOrders(items) ==
    LET n == Len(items)
    IN  IF ConsistentComparator(items) THEN {SortFrom(items, 1, << >>)}
        ELSE {p \in [1..n -> 1..n] : \A i, j \in 1..n : i # j => p[i] # p[j]}

Sort(items) == {[j \in 1..Len(items) |-> items[p[j]]] : p \in SortOrders(items)}

\* JSON.stringify of the exported list: NaN is written as null
StringifyItem(item) == [x \in DOMAIN item |-> StringifyValue(item[x])]

StringifyList(items) == [i \in 1..Len(items) |-> StringifyItem(items[i])]

\* the entries the map callback returns an object for
IncludedEntries(store, occurrenceMap) ==
    SelectSeq(store, LAMBDA e : Included(e.k, e.v, occurrenceMap))

\* Object.entries(annotations).map(...).filter(item => item !== null)
CurrentItems(store, occurrenceMap) ==
    LET kept == IncludedEntries(store, occurrenceMap)
    IN  [i \in 1..Len(kept) |->
            CurrentItem(kept[i].k, kept[i].v, Lookup(occurrenceMap, kept[i].k))]

OldFormatItems(store, occurrenceMap) ==
    LET kept == IncludedEntries(store, occurrenceMap)
    IN  [i \in 1..Len(kept) |->
            OldFormatItem(kept[i].k, kept[i].v, Lookup(occurrenceMap, kept[i].k))]

\* the documents a sorted list can be written as: doc is the JSON document,
\* keys names, for each of its items, the entry of the store it was made from
Documents(items, kept) ==
    {[doc |-> StringifyList([j \in 1..Len(items) |-> items[p[j]]]),
      keys |-> [j \in 1..Len(items) |-> kept[p[j]].k]] : p \in SortOrders(items)}

\* the document of annotations.json
CurrentDocuments(store, rows) ==
    Documents(CurrentItems(store, OccurrenceMap(rows)),
              IncludedEntries(store, OccurrenceMap(rows)))

\* the document of annotations_old_format.json
OldFormatDocuments(store, rows) ==
    Documents(OldFormatItems(store, OccurrenceMap(rows)),
              IncludedEntries(store, OccurrenceMap(rows)))

----------------------------------------------------------------------------
(* State machine *)

NoEvent == [op |-> "none"]
NoDownload == [file |-> "none"]
\* no second page instance is open
NoInstance == [tab |-> "none"]

Init ==
    /\ localStorage \in StoredItems
    /\ annotations = << >>
    /\ annotationsLoaded = FALSE
    /\ savePending = FALSE
    /\ mounted = FALSE
    /\ uploadResult = Null
    /\ uploadError = FALSE
    /\ loading = FALSE
    /\ files = FALSE
    /\ url = FALSE
    /\ lastEvent = NoEvent
    /\ download = NoDownload
    /\ probe = NoEvent
    /\ background = NoInstance

\* mount effects whose save effect has no annotationsLoaded test: its first
\* run writes the initial empty map
LoadEffectWritesInitial(throws) ==
    /\ ~mounted
    /\ LET stored == localStorage
           parses == ~throws /\ stored.text \notin {"none", "empty"}
                        /\ ~ParseThrows(stored)
           isObject == parses /\ Truthy(JSONparse(stored))
                          /\ TypeOf(JSONparse(stored)) = "object"
       IN  /\ annotations' = IF isObject THEN Migrate(JSONparse(stored)) ELSE annotations
           /\ savePending' = isObject
    /\ localStorage' = JSONstringify(annotations)
    /\ annotationsLoaded' = TRUE
    /\ mounted' = TRUE
    /\ lastEvent' = [op |-> "load", threw |-> throws]
    /\ download' = NoDownload
    /\ UNCHANGED <<uploadResult, uploadError, loading, files, url, probe, background>>

\* The mount effects.  The load effect reads the item (getItem may throw),
\* parses and migrates it; its state updates are applied together.  The save
\* effect of the first render sees annotationsLoaded = false and returns; it
\* runs again after the update when setAnnotations was called.
LoadEffect(throws) ==
    /\ ~mounted
    /\ LET stored == localStorage
           parses == ~throws /\ stored.text \notin {"none", "empty"}
                        /\ ~ParseThrows(stored)
           isObject == parses /\ Truthy(JSONparse(stored))
                          /\ TypeOf(JSONparse(stored)) = "object"
       IN  /\ annotations' = IF isObject THEN Migrate(JSONparse(stored)) ELSE annotations
           /\ savePending' = isObject
    /\ annotationsLoaded' = TRUE
    /\ mounted' = TRUE
    /\ lastEvent' = [op |-> "load", threw |-> throws]
    /\ download' = NoDownload
    /\ UNCHANGED <<localStorage, uploadResult, uploadError, loading, files, url, probe, background>>

\* a save effect whose guard is inverted: it returns once annotations are loaded
SaveEffectNeverWrites(throws) ==
    /\ savePending
    /\ savePending' = FALSE
    /\ localStorage' = IF ~annotationsLoaded /\ ~throws
                       THEN JSONstringify(annotations) ELSE localStorage
    /\ lastEvent' = [op |-> "save", threw |-> throws]
    /\ download' = NoDownload
    /\ UNCHANGED <<annotations, annotationsLoaded, mounted, uploadResult, uploadError,
                   loading, files, url, probe, background>>

\* a save effect that gives the in-memory map up when the write throws
SaveEffectRollsBack(throws) ==
    /\ savePending
    /\ savePending' = FALSE
    /\ localStorage' = IF annotationsLoaded /\ ~throws
                       THEN JSONstringify(annotations) ELSE localStorage
    /\ annotations' = IF throws THEN << >> ELSE annotations
    /\ lastEvent' = [op |-> "save", threw |-> throws]
    /\ download' = NoDownload
    /\ UNCHANGED <<annotationsLoaded, mounted, uploadResult, uploadError,
                   loading, files, url, probe, background>>

\* a save effect that keeps the persisted entries of the keys the in-memory
\* map does not have
SaveEffectMerges(throws) ==
    /\ savePending
    /\ savePending' = FALSE
    /\ localStorage' =
         IF annotationsLoaded /\ ~throws
         THEN LET kept == IF localStorage.text = "json" /\ localStorage.doc.t = "map"
                          THEN SelectSeq(localStorage.doc.e,
                                         LAMBDA e : ~HasKey(annotations, e.k))
                          ELSE << >>
              IN  JsonText(Map(JSONstringify(annotations).doc.e \o kept))
         ELSE localStorage
    /\ lastEvent' = [op |-> "save", threw |-> throws]
    /\ download' = NoDownload
    /\ UNCHANGED <<annotations, annotationsLoaded, mounted, uploadResult, uploadError,
                   loading, files, url, probe, background>>

\* The save effect, run after a render in which annotations changed
\* (setItem may throw).
SaveEffect(throws) ==
    /\ savePending
    /\ savePending' = FALSE
    /\ localStorage' = IF annotationsLoaded /\ ~throws
                       THEN JSONstringify(annotations) ELSE localStorage
    /\ lastEvent' = [op |-> "save", threw |-> throws]
    /\ download' = NoDownload
    /\ UNCHANGED <<annotations, annotationsLoaded, mounted, uploadResult, uploadError,
                   loading, files, url, probe, background>>

\* A user event is handled once the effects of the previous render have run.
Idle == mounted /\ ~savePending

handleAnnotationChange(key, field, value) ==
    /\ Idle
    /\ annotations' = AnnotationChange(annotations, key, field, value)
    /\ savePending' = TRUE
    /\ lastEvent' = [op |-> "edit", key |-> key, field |-> field, value |-> value]
    /\ download' = NoDownload
    /\ UNCHANGED <<localStorage, annotationsLoaded, mounted, uploadResult, uploadError,
                   loading, files, url, probe, background>>

\* a clear that removes the item first and stops when that throws
handleClearAnnotationsAborts(throws) ==
    /\ Idle
    /\ annotations' = IF throws THEN annotations ELSE << >>
    /\ savePending' = ~throws
    /\ localStorage' = IF throws THEN localStorage ELSE NoItem
    /\ lastEvent' = [op |-> "clear", threw |-> throws]
    /\ download' = NoDownload
    /\ UNCHANGED <<annotationsLoaded, mounted, uploadResult, uploadError, loading,
                   files, url, probe, background>>

\* removeItem may throw
handleClearAnnotations(throws) ==
    /\ Idle
    /\ annotations' = << >>
    /\ savePending' = TRUE
    /\ localStorage' = IF throws THEN localStorage ELSE NoItem
    /\ lastEvent' = [op |-> "clear", threw |-> throws]
    /\ download' = NoDownload
    /\ UNCHANGED <<annotationsLoaded, mounted, uploadResult, uploadError, loading,
                   files, url, probe, background>>

\* an export that keeps only the exported entries in the store
handleDownloadAnnotationsPrunes ==
    /\ Idle
    /\ IF ~Truthy(AnalyzedOccurrences(uploadResult)) THEN download' = NoDownload
       ELSE \E d \in CurrentDocuments(annotations, AnalyzedOccurrences(uploadResult).e) :
              download' = [file |-> "annotations.json", doc |-> d.doc, keys |-> d.keys]
    /\ annotations' =
         IF ~Truthy(AnalyzedOccurrences(uploadResult)) THEN annotations
         ELSE SelectSeq(annotations, LAMBDA e :
                  Included(e.k, e.v, OccurrenceMap(AnalyzedOccurrences(uploadResult).e)))
    /\ savePending' = Truthy(AnalyzedOccurrences(uploadResult))
    /\ lastEvent' = [op |-> "download"]
    /\ UNCHANGED <<localStorage, annotationsLoaded, mounted,
                   uploadResult, uploadError, loading, files, url, probe, background>>

\* the download holds the document and, for each item, the key of its entry
handleDownloadAnnotations ==
    /\ Idle
    /\ IF ~Truthy(AnalyzedOccurrences(uploadResult)) THEN download' = NoDownload
       ELSE \E d \in CurrentDocuments(annotations, AnalyzedOccurrences(uploadResult).e) :
              download' = [file |-> "annotations.json", doc |-> d.doc, keys |-> d.keys]
    /\ lastEvent' = [op |-> "download"]
    /\ UNCHANGED <<localStorage, annotations, annotationsLoaded, savePending, mounted,
                   uploadResult, uploadError, loading, files, url, probe, background>>

\* a legacy export without the early return: with no result set it hands out
\* the document of an empty list
handleDownloadAnnotationsOldFormatUnguarded ==
    /\ Idle
    /\ IF ~Truthy(AnalyzedOccurrences(uploadResult))
       THEN download' = [file |-> "annotations_old_format.json", doc |-> << >>,
                         keys |-> << >>]
       ELSE \E d \in OldFormatDocuments(annotations, AnalyzedOccurrences(uploadResult).e) :
              download' = [file |-> "annotations_old_format.json", doc |-> d.doc,
                           keys |-> d.keys]
    /\ lastEvent' = [op |-> "downloadOld"]
    /\ UNCHANGED <<localStorage, annotations, annotationsLoaded, savePending, mounted,
                   uploadResult, uploadError, loading, files, url, probe, background>>

handleDownloadAnnotationsOldFormat ==
    /\ Idle
    /\ IF ~Truthy(AnalyzedOccurrences(uploadResult)) THEN download' = NoDownload
       ELSE \E d \in OldFormatDocuments(annotations, AnalyzedOccurrences(uploadResult).e) :
              download' = [file |-> "annotations_old_format.json", doc |-> d.doc,
                           keys |-> d.keys]
    /\ lastEvent' = [op |-> "downloadOld"]
    /\ UNCHANGED <<localStorage, annotations, annotationsLoaded, savePending, mounted,
                   uploadResult, uploadError, loading, files, url, probe, background>>

\* the file input is disabled while loading
handleFileChange(valid, selected) ==
    /\ Idle /\ ~loading
    /\ IF ~valid
       THEN /\ uploadError' = TRUE
            /\ files' = FALSE
            /\ uploadResult' = Null
            /\ url' = url
       ELSE /\ files' = selected
            /\ url' = FALSE
            /\ uploadResult' = Null
            /\ uploadError' = FALSE
    /\ lastEvent' = [op |-> "fileChange"]
    /\ download' = NoDownload
    /\ UNCHANGED <<localStorage, annotations, annotationsLoaded, savePending, mounted,
                   loading, probe, background>>

\* the url input is disabled while loading; the example link of the url label
\* does the same with a fixed url and is never disabled
handleUrlChange(value, link) ==
    /\ Idle /\ (link \/ ~loading)
    /\ url' = value
    /\ files' = FALSE
    /\ uploadResult' = Null
    /\ uploadError' = FALSE
    /\ lastEvent' = [op |-> "urlChange"]
    /\ download' = NoDownload
    /\ UNCHANGED <<localStorage, annotations, annotationsLoaded, savePending, mounted,
                   loading, probe, background>>

\* the example link of the introduction only sets the url: the selected files,
\* the result set and the error stay as they are
ExampleLink ==
    /\ Idle
    /\ url' = TRUE
    /\ lastEvent' = [op |-> "exampleLink"]
    /\ download' = NoDownload
    /\ UNCHANGED <<localStorage, annotations, annotationsLoaded, savePending, mounted,
                   uploadResult, uploadError, loading, files, probe, background>>

\* the submit button is disabled while loading or without an input
handleUpload ==
    /\ Idle /\ ~loading
    /\ IF ~files /\ ~url
       THEN UNCHANGED <<loading, uploadResult, uploadError>>
       ELSE /\ loading' = TRUE
            /\ uploadResult' = Null
            /\ uploadError' = FALSE
    /\ lastEvent' = [op |-> "upload"]
    /\ download' = NoDownload
    /\ UNCHANGED <<localStorage, annotations, annotationsLoaded, savePending, mounted,
                   files, url, probe, background>>

\* a resolution that starts the new result set with an empty store
UploadResolvedForgets(data) ==
    /\ Idle /\ loading
    /\ uploadResult' = data
    /\ uploadError' = FALSE
    /\ loading' = FALSE
    /\ annotations' = << >>
    /\ savePending' = TRUE
    /\ lastEvent' = [op |-> "resolved"]
    /\ download' = NoDownload
    /\ UNCHANGED <<localStorage, annotationsLoaded, mounted, files, url, probe, background>>

\* the request of handleUpload resolves with response.data
UploadResolved(data) ==
    /\ Idle /\ loading
    /\ uploadResult' = data
    /\ uploadError' = FALSE
    /\ loading' = FALSE
    /\ lastEvent' = [op |-> "resolved"]
    /\ download' = NoDownload
    /\ UNCHANGED <<localStorage, annotations, annotationsLoaded, savePending, mounted,
                   files, url, probe, background>>

\* the request of handleUpload rejects
UploadRejected ==
    /\ Idle /\ loading
    /\ uploadError' = TRUE
    /\ uploadResult' = Null
    /\ loading' = FALSE
    /\ lastEvent' = [op |-> "rejected"]
    /\ download' = NoDownload
    /\ UNCHANGED <<localStorage, annotations, annotationsLoaded, savePending, mounted,
                   files, url, probe, background>>

\* the keys of the rows the table shows
RowKeys ==
    IF Truthy(AnalyzedOccurrences(uploadResult))
    THEN {getAnnotationKey(AnalyzedOccurrences(uploadResult).e[i]) :
            i \in 1..Len(AnalyzedOccurrences(uploadResult).e)}
    ELSE {}

\* the rows of the table
Rows(result) ==
    IF Truthy(AnalyzedOccurrences(result))
    THEN {AnalyzedOccurrences(result).e[i] : i \in 1..Len(AnalyzedOccurrences(result).e)}
    ELSE {}

\* the values the select and the two inputs of a row show
RowValues(store, occurrence) ==
    LET rowKey == getAnnotationKey(occurrence)
        annotationData == OrElse(Lookup(store, rowKey), EmptyAnnotation)
    IN  [annotation |->
            IF TypeOf(annotationData) = "string" THEN annotationData
            ELSE OrElse(OptProp(annotationData, "annotation"), EmptyStr),
         alternative |->
            IF TypeOf(annotationData) = "object"
            THEN OrElse(OptProp(annotationData, "alternative"), EmptyStr)
            ELSE EmptyStr,
         comments |->
            IF TypeOf(annotationData) = "object"
            THEN OrElse(OptProp(annotationData, "comments"), EmptyStr)
            ELSE EmptyStr]

\* an edit of a row of the table
EditRow ==
    \E key \in RowKeys, input \in EditInputs :
        /\ HasKey(annotations, key) \/ Len(annotations) < MaxEntries
        /\ handleAnnotationChange(key, input[1], input[2])

Upload ==
    \/ \E valid \in BOOLEAN, selected \in BOOLEAN : handleFileChange(valid, selected)
    \/ \E value \in BOOLEAN, link \in BOOLEAN : handleUrlChange(value \/ link, link)
    \/ ExampleLink
    \/ handleUpload
    \/ \E data \in Responses : UploadResolved(data)
    \/ UploadRejected

Next ==
    \/ LoadEffect(FALSE)
    \/ SaveEffect(FALSE)
    \/ EditRow
    \/ handleClearAnnotations(FALSE)
    \/ handleDownloadAnnotations
    \/ handleDownloadAnnotationsOldFormat
    \/ Upload

Spec == Init /\ [][Next]_vars

----------------------------------------------------------------------------
(* A new session: the page is loaded again, the component state starts from *)
(* its useState initial values and the storage is kept.                     *)

ReloadPage ==
    /\ Idle
    /\ annotations' = << >>
    /\ annotationsLoaded' = FALSE
    /\ savePending' = FALSE
    /\ mounted' = FALSE
    /\ uploadResult' = Null
    /\ uploadError' = FALSE
    /\ loading' = FALSE
    /\ files' = FALSE
    /\ url' = FALSE
    /\ lastEvent' = [op |-> "reload"]
    /\ download' = NoDownload
    /\ UNCHANGED <<localStorage, probe, background>>

----------------------------------------------------------------------------
(* Key derivation applied to pairs of occurrence records *)

IdComponents == {Undefined, Null, Num(0), Num(12), Num(-3)}

ProbeOccurrences ==
    {Occurrence(a, lon, lat, name, density, Null) :
        a \in IdComponents, lon \in IdComponents,
        lat \in {Undefined, Null, Dec(-325, -2)},
        name \in {Undefined, Chr("A")}, density \in {Null, Num(3)}}

StartOfSession ==
    /\ annotations = << >>
    /\ annotationsLoaded = FALSE
    /\ savePending = FALSE
    /\ mounted = FALSE
    /\ uploadResult = Null
    /\ uploadError = FALSE
    /\ loading = FALSE
    /\ files = FALSE
    /\ url = FALSE
    /\ lastEvent = NoEvent
    /\ download = NoDownload
    /\ background = NoInstance

KeyInit ==
    /\ StartOfSession
    /\ localStorage = NoItem
    /\ probe \in [op : {"key"}, a : ProbeOccurrences, b : ProbeOccurrences,
                  keyA : {Undefined}, keyB : {Undefined}]

DeriveKeys ==
    /\ probe.keyA = Undefined
    /\ probe' = [probe EXCEPT !.keyA = Str(getAnnotationKey(probe.a)),
                              !.keyB = Str(getAnnotationKey(probe.b))]
    /\ UNCHANGED <<localStorage, annotations, annotationsLoaded, savePending, mounted,
                   uploadResult, uploadError, loading, files, url, lastEvent, download,
                   background>>

KeyNext == DeriveKeys

KeySpec == KeyInit /\ [][KeyNext]_vars

----------------------------------------------------------------------------
(* Save, reload and load of an in-memory map of the current shape *)

StoreKeys == {Key1, Key3, StaleKey}

CurrentShapeValues ==
    {Annotation(a, b, c) :
        a \in {EmptyStr, Str(ACCEPT), Str(REJECT)},
        b \in {EmptyStr, Str(Seven), Str(<<"7", "a">>)},
        c \in {EmptyStr, Str(Ok)}} \ {EmptyAnnotation}

\* the dictionaries of at most n entries with keys of K and values of V
DictionariesOf(K, V, n) ==
    {m \in UNION {[1..len -> [k : K, v : V]] : len \in 0..n} :
        \A i, j \in 1..Len(m) : i # j => m[i].k # m[j].k}

CurrentShapeMaps == DictionariesOf(StoreKeys, CurrentShapeValues, MaxEntries)

\* the map M is in memory and its save effect is scheduled
RoundTripInit ==
    /\ annotations \in CurrentShapeMaps
    /\ probe = [op |-> "roundtrip", map |-> annotations]
    /\ annotationsLoaded = TRUE
    /\ savePending = TRUE
    /\ mounted = TRUE
    /\ localStorage = NoItem
    /\ uploadResult = Null
    /\ uploadError = FALSE
    /\ loading = FALSE
    /\ files = FALSE
    /\ url = FALSE
    /\ lastEvent = NoEvent
    /\ download = NoDownload
    /\ background = NoInstance

RoundTripNext ==
    \/ SaveEffect(FALSE)
    \/ ReloadPage
    \/ LoadEffect(FALSE)

RoundTripSpec == RoundTripInit /\ [][RoundTripNext]_vars

----------------------------------------------------------------------------
(* Load, save, reload and load again of a persisted map of any shape *)

PersistedValues ==
    {Str(ACCEPT), EmptyStr, Str(<<"m", "a", "y", "b", "e">>),
     Annotation(Str(ACCEPT), Str(Seven), Str(Ok)),
     Annotation(EmptyStr, Str(<<"7", "a">>), EmptyStr),
     Annotation(Str(REJECT), EmptyStr, EmptyStr),
     Obj([annotation |-> Str(ACCEPT)]),
     Obj([comments |-> Str(Ok), extra |-> Num(1)]),
     Obj([annotation |-> Num(5), alternative |-> Null, comments |-> EmptyStr]),
     Null, Num(4)}

\* the keys of the persisted maps: two derived keys, the key __proto__ and an
\* array index
PersistedMaps ==
    DictionariesOf({Key1, StaleKey, PROTO, <<"5">>}, PersistedValues, MaxEntries)

MigrateInit ==
    /\ StartOfSession
    /\ localStorage \in {JsonText(Map(m)) : m \in PersistedMaps}
    /\ probe = [op |-> "migrate", item |-> localStorage]

MigrateNext ==
    \/ LoadEffect(FALSE)
    \/ SaveEffect(FALSE)
    \/ ReloadPage

MigrateSpec == MigrateInit /\ [][MigrateNext]_vars

----------------------------------------------------------------------------
(* The two exports applied to a store joined with a result set whose records *)
(* differ in each component of the identifying triple                        *)

ExportRows ==
    <<Occurrence(Null, Num(5), Num(1), Chr("A"), Num(3), Num(1)),
      Occurrence(Num(0), Num(1), Num(1), Chr("B"), Num(0), Null),
      Occurrence(Num(3), Num(0), Num(1), Chr("C"), Null, Num(0)),
      Occurrence(Num(3), Num(0), Num(-2), Chr("D"), Num(1), Num(2)),
      Occurrence(Num(0), Num(2), Num(1), Chr("E"), Num(2), Num(1))>>

ExportKeys == {getAnnotationKey(ExportRows[i]) : i \in 1..Len(ExportRows)}

DecidedValues ==
    {Annotation(Str(ACCEPT), EmptyStr, EmptyStr),
     Annotation(Str(REJECT), Str(Seven), Str(Ok))}

\* the session has loaded or edited the store, saved it and received the
\* result set.  One loaded store has three entries for which the comparator
\* is not consistent: the second and the first record tie, the first and the
\* fifth tie, and the second is before the fifth.
ExportInit ==
    /\ annotations \in DictionariesOf(ExportKeys, DecidedValues, MaxEntries)
          \cup {[i \in 1..3 |->
                    Entry(getAnnotationKey(ExportRows[<<2, 1, 5>>[i]]),
                          Annotation(Str(ACCEPT), EmptyStr, EmptyStr))]}
    /\ localStorage = JSONstringify(annotations)
    /\ annotationsLoaded = TRUE
    /\ savePending = FALSE
    /\ mounted = TRUE
    /\ uploadResult = ResultOf(ExportRows)
    /\ uploadError = FALSE
    /\ loading = FALSE
    /\ files = FALSE
    /\ url = TRUE
    /\ lastEvent = NoEvent
    /\ download = NoDownload
    /\ probe = NoEvent
    /\ background = NoInstance

ExportNext ==
    \/ handleDownloadAnnotations
    \/ handleDownloadAnnotationsOldFormat

ExportSpec == ExportInit /\ [][ExportNext]_vars

----------------------------------------------------------------------------
(* Result ranking: the order in which the table shows the rows *)

\* the most rows of a result set that is ranked
MaxRows == 5

\* a comparator that takes a missing density for 0
RankCompareMissingAsZero(a, b) ==
    Subtract(Coalesce(a.p.density, Num(0)), Coalesce(b.p.density, Num(0)))

\* (a, b) => (a.density ?? Infinity) - (b.density ?? Infinity)
RankCompare(a, b) ==
    Subtract(Coalesce(a.p.density, Infinity), Coalesce(b.p.density, Infinity))

\* Array.prototype.sort with RankCompare: a stable insertion of each element
\* after the elements it does not sort before
RECURSIVE RankInsert(_, _)
RankInsert(sorted, item) ==
    IF sorted = << >> THEN <<item>>
    ELSE IF Negative(RankCompare(item, sorted[Len(sorted)]))
    THEN Append(RankInsert(SubSeq(sorted, 1, Len(sorted) - 1), item),
                sorted[Len(sorted)])
    ELSE Append(sorted, item)

RECURSIVE RankFrom(_, _)
RankFrom(items, sorted) ==
    IF items = << >> THEN sorted
    ELSE RankFrom(Tail(items), RankInsert(sorted, Head(items)))

\* analyzed_occurrences.slice().sort(...): the rows in the order of the table
DisplayedRows(result) == RankFrom(AnalyzedOccurrences(result).e, << >>)

Densities == {Null, Undefined, Num(1), Num(2), Num(3)}

\* a result set with the given densities; the name of a record is its place
RowsOf(densities) ==
    [i \in 1..Len(densities) |->
        Occurrence(Num(12), Num(2), Num(-3), Str(NatToString(i)), densities[i], Null)]

RankInit ==
    /\ \E densities \in UNION {[1..n -> Densities] : n \in 0..MaxRows} :
          uploadResult = ResultOf(RowsOf(densities))
    /\ probe = [op |-> "rank", shown |-> Undefined]
    /\ localStorage = NoItem
    /\ annotations = << >>
    /\ annotationsLoaded = TRUE
    /\ savePending = FALSE
    /\ mounted = TRUE
    /\ uploadError = FALSE
    /\ loading = FALSE
    /\ files = FALSE
    /\ url = TRUE
    /\ lastEvent = NoEvent
    /\ download = NoDownload
    /\ background = NoInstance

\* the render of the table body
RenderRows ==
    /\ probe.shown = Undefined
    /\ probe' = [probe EXCEPT !.shown = Arr(DisplayedRows(uploadResult))]
    /\ UNCHANGED <<localStorage, annotations, annotationsLoaded, savePending, mounted,
                   uploadResult, uploadError, loading, files, url, lastEvent, download,
                   background>>

RankNext == RenderRows

RankSpec == RankInit /\ [][RankNext]_vars

----------------------------------------------------------------------------
(* The edit reducer applied to every key, field and value, the values null  *)
(* and undefined included, in a session that has loaded a persisted map     *)

EditValues == {EmptyStr, Str(Ok), Null, Undefined}

EditKeys == {Key1, Key3}

\* persisted maps the session may have loaded
EditMaps ==
    { << >>,
      <<Entry(Key1, Str(ACCEPT)), Entry(StaleKey, Annotation(Num(5), Null, Str(Ok)))>>,
      <<Entry(Key1, EmptyStr), Entry(Key3, Null)>> }

EditInit ==
    /\ \E m \in EditMaps : annotations = Migrate(Map(m))
    /\ localStorage = JSONstringify(annotations)
    /\ annotationsLoaded = TRUE
    /\ savePending = FALSE
    /\ mounted = TRUE
    /\ uploadResult = Null
    /\ uploadError = FALSE
    /\ loading = FALSE
    /\ files = FALSE
    /\ url = FALSE
    /\ lastEvent = NoEvent
    /\ download = NoDownload
    /\ probe = NoEvent
    /\ background = NoInstance

EditAny ==
    \E key \in EditKeys, field \in {"annotation", "alternative", "comments"},
       value \in EditValues :
        /\ HasKey(annotations, key) \/ Len(annotations) < MaxEntries
        /\ handleAnnotationChange(key, field, value)

EditNext ==
    \/ EditAny
    \/ SaveEffect(FALSE)

EditSpec == EditInit /\ [][EditNext]_vars

----------------------------------------------------------------------------
(* The application with a storage whose getItem, setItem and removeItem may *)
(* throw at any call                                                        *)

FaultItems ==
    {NoItem,
     JsonText(Map(<<Entry(Key1, Str(ACCEPT)),
                    Entry(StaleKey, Annotation(Str(REJECT), EmptyStr, Str(Ok)))>>))}

FaultInit ==
    /\ StartOfSession
    /\ localStorage \in FaultItems
    /\ probe = NoEvent

\* a change of the decision of a row of the table
EditDecision ==
    \E key \in RowKeys, value \in {EmptyStr, Str(ACCEPT), Str(REJECT)} :
        /\ HasKey(annotations, key) \/ Len(annotations) < MaxEntries
        /\ handleAnnotationChange(key, "annotation", value)

\* the two example links, the submit button and the response of the analysis
UploadExample ==
    \/ handleUrlChange(TRUE, TRUE)
    \/ ExampleLink
    \/ handleUpload
    \/ UploadResolved(ResultOf(<<Occ1, Occ3>>))

FaultNext ==
    \/ \E throws \in BOOLEAN : LoadEffect(throws)
    \/ \E throws \in BOOLEAN : SaveEffect(throws)
    \/ EditDecision
    \/ \E throws \in BOOLEAN : handleClearAnnotations(throws)
    \/ handleDownloadAnnotations
    \/ handleDownloadAnnotationsOldFormat
    \/ UploadExample

FaultSpec == FaultInit /\ [][FaultNext]_vars

----------------------------------------------------------------------------
(* Two page instances on one storage.  Each instance has its own component  *)
(* state; the events and effects of the two instances interleave.  The      *)
(* variables of the component hold the state of the instance that takes the *)
(* next step, background holds the state of the other one.                  *)

\* the component state of the instance that takes the steps
ThisInstance ==
    [annotations |-> annotations, annotationsLoaded |-> annotationsLoaded,
     savePending |-> savePending, mounted |-> mounted,
     uploadResult |-> uploadResult, uploadError |-> uploadError,
     loading |-> loading, files |-> files, url |-> url]

\* the useState initial values of an instance that has not run its effects
NewInstance ==
    [annotations |-> << >>, annotationsLoaded |-> FALSE,
     savePending |-> FALSE, mounted |-> FALSE,
     uploadResult |-> Null, uploadError |-> FALSE,
     loading |-> FALSE, files |-> FALSE, url |-> FALSE]

\* the next step is taken by the other instance
SwitchInstance ==
    /\ background # NoInstance
    /\ background' = ThisInstance
    /\ annotations' = background.annotations
    /\ annotationsLoaded' = background.annotationsLoaded
    /\ savePending' = background.savePending
    /\ mounted' = background.mounted
    /\ uploadResult' = background.uploadResult
    /\ uploadError' = background.uploadError
    /\ loading' = background.loading
    /\ files' = background.files
    /\ url' = background.url
    /\ lastEvent' = [op |-> "switch"]
    /\ download' = NoDownload
    /\ UNCHANGED <<localStorage, probe>>

TabItems ==
    {NoItem,
     JsonText(Map(<<Entry(StaleKey, Annotation(Str(REJECT), EmptyStr, Str(Ok)))>>))}

TabInit ==
    /\ localStorage \in TabItems
    /\ annotations = NewInstance.annotations
    /\ annotationsLoaded = NewInstance.annotationsLoaded
    /\ savePending = NewInstance.savePending
    /\ mounted = NewInstance.mounted
    /\ uploadResult = NewInstance.uploadResult
    /\ uploadError = NewInstance.uploadError
    /\ loading = NewInstance.loading
    /\ files = NewInstance.files
    /\ url = NewInstance.url
    /\ background = NewInstance
    /\ lastEvent = NoEvent
    /\ download = NoDownload
    /\ probe = NoEvent

TabNext ==
    \/ LoadEffect(FALSE)
    \/ SaveEffect(FALSE)
    \/ EditDecision
    \/ UploadExample
    \/ SwitchInstance

TabSpec == TabInit /\ [][TabNext]_vars

----------------------------------------------------------------------------
(* Properties *)

FieldNames == {"annotation", "alternative", "comments"}

Missing(v) == v \in {Null, Undefined}

\* two dictionaries of annotations with the same keys and, per key, the same
\* three field values
SameMap(a, b) ==
    /\ KeysOf(a) = KeysOf(b)
    /\ \A key \in KeysOf(a) : \A f \in FieldNames :
          Lookup(a, key).p[f] = Lookup(b, key).p[f]

\* the persisted item is the JSON text of exactly the dictionary m
Persisted(item, m) ==
    /\ item.text = "json"
    /\ item.doc.t = "map"
    /\ Len(item.doc.e) = Len(m)
    /\ \A i \in 1..Len(m) :
          /\ item.doc.e[i].k = m[i].k
          /\ item.doc.e[i].v.t = "object"
          /\ DOMAIN item.doc.e[i].v.p = FieldNames
          /\ \A f \in FieldNames : item.doc.e[i].v.p[f] = m[i].v.p[f]

\* C1: an edit (key, field, value) leaves the key absent when the merged entry
\* has its three fields empty, and present when the value is not empty.
PruningAfterEdit ==
    [][lastEvent'.op = "edit" =>
        LET key == lastEvent'.key
            value == lastEvent'.value
            previous == IF HasKey(annotations, key) THEN Lookup(annotations, key)
                        ELSE EmptyAnnotation
            merged == [f \in FieldNames |->
                          IF f # lastEvent'.field THEN previous.p[f]
                          ELSE IF Missing(value) THEN EmptyStr ELSE value]
        IN  /\ (\A f \in FieldNames : ~Truthy(merged[f])) => ~HasKey(annotations', key)
            /\ Truthy(value) => HasKey(annotations', key)]_vars

\* an edit emptied the last field of an entry that was persisted, and the key
\* is gone from the store
PrunedByEdit ==
    /\ lastEvent.op = "edit"
    /\ ~Truthy(lastEvent.value)
    /\ ~HasKey(annotations, lastEvent.key)
    /\ localStorage.text = "json" /\ localStorage.doc.t = "map"
    /\ HasKey(localStorage.doc.e, lastEvent.key)
    /\ Len(annotations) > 0

\* C2: no key of the in-memory store maps to an annotation whose decision,
\* alternative and comments are all empty.
NoAllEmptyEntry ==
    \A i \in 1..Len(annotations) :
        \E f \in FieldNames : Truthy(annotations[i].v.p[f])

SameComponent(x, y) == (Missing(x) /\ Missing(y)) \/ x = y

SameTriple(a, b) ==
    /\ SameComponent(a.p.aphiaid, b.p.aphiaid)
    /\ SameComponent(a.p.decimalLongitude, b.p.decimalLongitude)
    /\ SameComponent(a.p.decimalLatitude, b.p.decimalLatitude)

\* C3: two records with the same (aphiaid, decimalLongitude, decimalLatitude),
\* null and undefined counting as missing, have the same key whatever their
\* other fields; the key is a string of three components, with 'na' in the
\* place of each missing one.
KeyStability ==
    probe.keyA # Undefined =>
        /\ SameTriple(probe.a, probe.b) => probe.keyA = probe.keyB
        /\ TypeOf(probe.keyA) = "string"
        /\ LET parts == Split(probe.keyA.s, "|")
           IN  /\ Len(parts) = 3
               /\ Missing(probe.a.p.aphiaid) <=> parts[1] = NA
               /\ Missing(probe.a.p.decimalLongitude) <=> parts[2] = NA
               /\ Missing(probe.a.p.decimalLatitude) <=> parts[3] = NA

\* two records that differ in their other fields, one with null where the
\* other has undefined, got one key
SameKeyForSameTriple ==
    /\ probe.keyA # Undefined
    /\ SameTriple(probe.a, probe.b)
    /\ probe.a.p.aphiaid = Null /\ probe.b.p.aphiaid = Undefined
    /\ probe.a.p.decimalLongitude = Num(-3)
    /\ probe.a.p.scientificName # probe.b.p.scientificName
    /\ probe.a.p.density # probe.b.p.density
    /\ probe.keyA = probe.keyB

\* the keys of the stored annotations an export has to contain
ExportedKeys ==
    {annotations[i].k : i \in
        {j \in 1..Len(annotations) :
            /\ annotations[j].k \in RowKeys
            /\ annotations[j].v.p.annotation \in {Str(ACCEPT), Str(REJECT)}}}

\* an AnnotationKey: the three components of a derived key, separated by two
\* '|' characters
IsAnnotationKey(key) == Cardinality({i \in 1..Len(key) : key[i] = "|"}) = 2

\* C4: for the stored annotations under annotation keys, each export holds
\* one entry for an annotation exactly when its key is the key of a current
\* record and its decision is accept or reject; an undecided annotation and an
\* annotation of no current record have no entry and stay in the store.
ExportFiltering ==
    download.file # "none" =>
        LET derived == {j \in 1..Len(download.keys) : IsAnnotationKey(download.keys[j])}
        IN  /\ {download.keys[j] : j \in derived} = ExportedKeys
            /\ Cardinality(derived) = Cardinality(ExportedKeys)
            /\ ExportedKeys \subseteq KeysOf(annotations)

\* an export that holds an entry, made while the store also holds a decided
\* annotation of no current record and an undecided one with an alternative
FilteredExport ==
    /\ download.file = "annotations_old_format.json"
    /\ Len(download.doc) = 1
    /\ \A key \in KeysOf(annotations) : IsAnnotationKey(key)
    /\ HasKey(annotations, StaleKey)
    /\ Lookup(annotations, StaleKey).p.annotation = Str(REJECT)
    /\ \E i \in 1..Len(annotations) :
          /\ annotations[i].k \in RowKeys
          /\ ~Truthy(annotations[i].v.p.annotation)
          /\ Truthy(annotations[i].v.p.alternative)

\* C5: an edit schedules the save effect, and when the save effect has run the
\* item under the storage key is the serialization of exactly the in-memory
\* map.
EveryEditPersisted ==
    /\ lastEvent.op = "edit" => savePending /\ annotationsLoaded
    /\ (lastEvent.op = "save" /\ ~lastEvent.threw) => Persisted(localStorage, annotations)

\* the save effect has written a map that only edits produce
EditsPersisted ==
    /\ lastEvent.op = "save"
    /\ Len(annotations) = 2
    /\ HasKey(annotations, Key3)
    /\ Lookup(annotations, Key3) = Annotation(Str(REJECT), Str(Seven), Str(Ok))
    /\ Persisted(localStorage, annotations)

\* C6: when the clear action and the save effect it schedules have run, the
\* in-memory map is empty and no item is left under the storage key.
ClearEmptiesBoth ==
    [][(lastEvent.op = "clear" /\ lastEvent'.op = "save") =>
        (annotations' = << >> /\ localStorage' = NoItem)]_vars

\* C7: a map of the current shape without an all-empty entry, saved and loaded
\* in a new session, is the in-memory map again.
RoundTrip == mounted => SameMap(annotations, probe.map)

\* the new session has loaded a map of two entries, one of them undecided
RoundTripDone ==
    /\ lastEvent.op = "load"
    /\ Len(probe.map) = 2
    /\ \E i \in 1..2 : ~Truthy(probe.map[i].v.p.annotation)
    /\ SameMap(annotations, probe.map)

\* C8: migrating a migrated map changes nothing, and the map loaded from the
\* blob saved after the first load is the map of the first load.
MigrationFixedPoint ==
    mounted =>
        /\ SameMap(Migrate(Map(annotations)), annotations)
        /\ SameMap(annotations, Migrate(JSONparse(probe.item)))

\* a later session has loaded the blob the first session saved from a map
\* that held a bare string
MigratedTwice ==
    /\ lastEvent.op = "load"
    /\ localStorage # probe.item
    /\ \E i \in 1..Len(probe.item.doc.e) : probe.item.doc.e[i].v = Str(ACCEPT)
    /\ \E i \in 1..Len(probe.item.doc.e) : probe.item.doc.e[i].v.t = "object"
    /\ Len(annotations) = 2

\* an object with the three fields, each a string
IsCurrentShape(v) ==
    /\ v.t = "object"
    /\ DOMAIN v.p = FieldNames
    /\ \A f \in FieldNames : v.p[f].t = "string"

\* C9: for a persisted map keyed by annotation keys the loaded map has
\* exactly the keys of the persisted map; under each annotation key a bare
\* string d becomes {d, '', ''} and an entry of the current shape keeps its
\* three fields, whatever the other entries of the blob are.
LosslessUpgrade ==
    mounted =>
        LET entries == JSONparse(probe.item).e
            derived(keys) == {key \in keys : IsAnnotationKey(key)}
        IN  /\ derived(KeysOf(annotations)) = derived(KeysOf(entries))
            /\ derived(KeysOf(entries)) = KeysOf(entries) =>
                  KeysOf(annotations) = KeysOf(entries)
            /\ \A i \in 1..Len(entries) :
                  LET value == entries[i].v
                      loaded == Lookup(annotations, entries[i].k)
                  IN  IsAnnotationKey(entries[i].k) =>
                      /\ value.t = "string" =>
                            /\ loaded.p.annotation = value
                            /\ loaded.p.alternative = EmptyStr
                            /\ loaded.p.comments = EmptyStr
                      /\ IsCurrentShape(value) =>
                            \A f \in FieldNames : loaded.p[f] = value.p[f]

\* the first load of a blob that mixes a bare string and a full object, each
\* under an annotation key
MixedBlobLoaded ==
    /\ lastEvent.op = "load"
    /\ localStorage = probe.item
    /\ \A i \in 1..Len(probe.item.doc.e) : IsAnnotationKey(probe.item.doc.e[i].k)
    /\ \E i \in 1..Len(probe.item.doc.e) : probe.item.doc.e[i].v = Str(ACCEPT)
    /\ \E i \in 1..Len(probe.item.doc.e) :
          probe.item.doc.e[i].v = Annotation(Str(ACCEPT), Str(Seven), Str(Ok))
    /\ Len(annotations) = 2

\* C10: in the legacy-format export an entry has the field remove exactly when
\* its decision is reject; remove is true when the alternative of the
\* annotation is empty and false when it is not.
RemoveField ==
    download.file = "annotations_old_format.json" =>
        \A j \in 1..Len(download.doc) :
            LET item == download.doc[j]
                stored == Lookup(annotations, download.keys[j])
            IN  /\ "remove" \in DOMAIN item <=> item.annotation = Str(REJECT)
                /\ "remove" \in DOMAIN item =>
                      item.remove = Bool(stored.p.alternative = EmptyStr)

\* a legacy-format export with an accept entry and a reject entry that has an
\* alternative
RemoveExported ==
    /\ download.file = "annotations_old_format.json"
    /\ Len(download.doc) = 2
    /\ \E j \in 1..2 :
          /\ download.doc[j].annotation = Str(ACCEPT)
          /\ "remove" \notin DOMAIN download.doc[j]
    /\ \E j \in 1..2 :
          /\ download.doc[j].annotation = Str(REJECT)
          /\ download.doc[j].new_AphiaID = Num(7)
          /\ download.doc[j].remove = Bool(FALSE)

\* a component of an exported entry as a number, null counting as 0
NullAsZero(v) == IF v.t = "number" THEN v ELSE Num(0)

\* a < b and a = b for two components, null counting as 0
Before(a, b) == SignOfDifference(NullAsZero(a), NullAsZero(b)) < 0

Level(a, b) == SignOfDifference(NullAsZero(a), NullAsZero(b)) = 0

\* entry a may come right before entry b: by aphiaid, then longitude, then
\* latitude, each ascending
InExportOrder(a, b, id) ==
    \/ Before(a[id], b[id])
    \/ /\ Level(a[id], b[id])
       /\ \/ Before(a.decimalLongitude, b.decimalLongitude)
          \/ /\ Level(a.decimalLongitude, b.decimalLongitude)
             /\ ~Before(b.decimalLatitude, a.decimalLatitude)

\* C11: in the current-format export every two adjacent entries are in order
\* of aphiaid (null as 0), then longitude, then latitude, also when one has a
\* null component where the other has 0.
CurrentExportOrdered ==
    download.file = "annotations.json" =>
        \A j \in 1..(Len(download.doc) - 1) :
            InExportOrder(download.doc[j], download.doc[j + 1], "aphiaid")

\* C12: the legacy-format export lists the annotation keys in the sequence of
\* the current-format export of the same store and result set: by AphiaID
\* ascending first, then longitude, then latitude.
LegacyOrderIsCurrentOrder ==
    download.file = "annotations_old_format.json" =>
        /\ \E current \in CurrentDocuments(annotations,
                                           AnalyzedOccurrences(uploadResult).e) :
              download.keys = current.keys
        /\ \A j \in 1..(Len(download.doc) - 1) :
              ~Before(download.doc[j + 1].AphiaID, download.doc[j].AphiaID)

\* the place of a record in the result set
PlaceOf(rows, r) == CHOOSE i \in 1..Len(rows) : rows[i] = r

\* C13: the table shows a permutation of the records of the result set, by
\* density ascending, the records without a density after all the others,
\* and records that tie in their original relative order.
RankingOrder ==
    probe.shown # Undefined =>
        LET rows == AnalyzedOccurrences(uploadResult).e
            shown == probe.shown.e
        IN  /\ Len(shown) = Len(rows)
            /\ {shown[i] : i \in 1..Len(shown)} = {rows[i] : i \in 1..Len(rows)}
            /\ \A i, j \in 1..Len(shown) : i < j =>
                  LET da == shown[i].p.density
                      db == shown[j].p.density
                  IN  /\ Missing(da) => Missing(db)
                      /\ (~Missing(da) /\ ~Missing(db)) => SignOfDifference(da, db) <= 0
                      /\ (da = db \/ (Missing(da) /\ Missing(db))) =>
                            PlaceOf(rows, shown[i]) < PlaceOf(rows, shown[j])

\* the densities 3, null, 1, null, 2 are shown as 1, 2, 3, null, null with the
\* second record before the fourth
RankedWithNulls ==
    /\ probe.shown # Undefined
    /\ AnalyzedOccurrences(uploadResult).e
          = RowsOf(<<Num(3), Null, Num(1), Null, Num(2)>>)
    /\ [i \in 1..5 |-> probe.shown.e[i].p.scientificName.s]
          = <<<<"3">>, <<"5">>, <<"1">>, <<"2">>, <<"4">>>>

\* the persisted text is not JSON, or is the JSON text of a value that is not
\* a JSON object
Malformed(item) ==
    \/ item.text \in {"empty", "garbage"}
    \/ item.text = "json" /\ item.doc.t # "map"

\* C14: when the persisted text is malformed, the startup load leaves the
\* in-memory map empty and marks loading complete.
MalformedYieldsEmpty ==
    (lastEvent.op = "load" /\ Malformed(localStorage)) =>
        /\ annotations = << >>
        /\ annotationsLoaded
        /\ mounted

\* C15: a step of either export leaves the in-memory map and the persisted
\* item as they were and schedules no save.
ExportLeavesStore ==
    [][lastEvent'.op \in {"download", "downloadOld"} =>
        /\ annotations' = annotations
        /\ localStorage' = localStorage
        /\ savePending' = savePending]_vars

\* an export was made of a store that holds an entry the export leaves out;
\* both entries are still in memory and in the persisted item
ExportedAndKept ==
    /\ lastEvent.op = "download"
    /\ download.file = "annotations.json"
    /\ Len(download.doc) = 1
    /\ Len(annotations) = 2
    /\ ~savePending
    /\ Persisted(localStorage, annotations)

\* the records of the responses
KnownOccurrences == {Occ1, Occ2, Occ3}

UploadOps == {"fileChange", "urlChange", "exampleLink", "upload", "resolved", "rejected"}

\* C16: a step that replaces the result set leaves the in-memory map and the
\* persisted item as they were, and each row of the new result set with the
\* identifying triple of a record that has a stored annotation shows that
\* annotation.
AnnotationsSurviveReanalysis ==
    [][lastEvent'.op \in UploadOps =>
        /\ annotations' = annotations
        /\ localStorage' = localStorage
        /\ \A o \in KnownOccurrences : \A r \in Rows(uploadResult') :
              (HasKey(annotations, getAnnotationKey(o)) /\ SameTriple(o, r)) =>
                  \A f \in FieldNames :
                      RowValues(annotations', r)[f]
                          = Lookup(annotations, getAnnotationKey(o)).p[f]]_vars

\* a second analysis has returned the record of the annotated row with another
\* name and density, and its row shows the annotation
ShownAfterReanalysis ==
    /\ lastEvent.op = "resolved"
    /\ uploadResult = ResultOf(<<Occ2, Occ3, Occ1>>)
    /\ HasKey(annotations, Key1)
    /\ ~HasKey(annotations, Key3)
    /\ RowValues(annotations, Occ2)
          = [annotation |-> Str(REJECT), alternative |-> Str(Seven), comments |-> Str(Ok)]
    /\ Persisted(localStorage, annotations)

\* C17: after an edit (key, field, value) that leaves the key in the store,
\* the entry of the key has the value in the named field, null and undefined
\* taken as the empty string, and the other two fields of the entry the key
\* had before, or empty ones; the entries of the other keys are as before.
EditMergeAndFrame ==
    [][lastEvent'.op = "edit" =>
        LET key == lastEvent'.key
            field == lastEvent'.field
            value == lastEvent'.value
            previous == IF HasKey(annotations, key) THEN Lookup(annotations, key)
                        ELSE EmptyAnnotation
        IN  /\ HasKey(annotations', key) =>
                  /\ Lookup(annotations', key).p[field]
                        = (IF Missing(value) THEN EmptyStr ELSE value)
                  /\ \A f \in FieldNames \ {field} :
                        Lookup(annotations', key).p[f] = previous.p[f]
            /\ KeysOf(annotations') \ {key} = KeysOf(annotations) \ {key}
            /\ \A other \in KeysOf(annotations) \ {key} :
                  Lookup(annotations', other) = Lookup(annotations, other)]_vars

\* an edit with the value null emptied one field of an entry that keeps its
\* decision, next to the entry of another key
NullEditMerged ==
    /\ lastEvent.op = "edit"
    /\ lastEvent.value = Null
    /\ lastEvent.field = "comments"
    /\ HasKey(annotations, lastEvent.key)
    /\ Lookup(annotations, lastEvent.key)
          = Annotation(Str(ACCEPT), Str(Ok), EmptyStr)
    /\ Persisted(localStorage, annotations) = FALSE
    /\ Len(annotations) = 2

\* C18: a save effect whose write throws leaves the in-memory map and the
\* persisted item as they are; a save effect whose write succeeds leaves the
\* serialization of the whole in-memory map in the storage; an export made
\* after a failed write is the export of the in-memory map.
SaveFailureNonFatal ==
    [][/\ lastEvent'.op = "save" =>
             /\ annotations' = annotations
             /\ lastEvent'.threw => localStorage' = localStorage
             /\ ~lastEvent'.threw => Persisted(localStorage', annotations')
       /\ lastEvent'.op \in {"download", "downloadOld"} =>
             (download.file # "none" =>
                 LET keys == {download.keys[j] : j \in 1..Len(download.keys)}
                 IN  ExportedKeys \subseteq keys /\ keys \subseteq KeysOf(annotations))']_vars

\* no write has succeeded in the session, and the in-memory map holds what the
\* edits made of it
EditsKeptAfterFailedSave ==
    /\ lastEvent.op = "save"
    /\ lastEvent.threw
    /\ localStorage = NoItem
    /\ Len(annotations) = 2
    /\ Lookup(annotations, Key1) = Annotation(Str(ACCEPT), EmptyStr, EmptyStr)
    /\ Lookup(annotations, Key3) = Annotation(Str(REJECT), EmptyStr, EmptyStr)

\* C19: when removeItem throws in the clear action, the in-memory map is empty
\* after the action, the persisted item is as it was, and the session goes on
\* with the save effect of the new map.
ClearDespiteFailure ==
    [][(lastEvent'.op = "clear" /\ lastEvent'.threw) =>
        /\ annotations' = << >>
        /\ localStorage' = localStorage
        /\ savePending'
        /\ mounted' /\ annotationsLoaded']_vars

\* the clear action has emptied the in-memory map while the persisted item
\* still holds two entries
ClearedWithItemLeft ==
    /\ lastEvent.op = "clear"
    /\ lastEvent.threw
    /\ annotations = << >>
    /\ localStorage.text = "json"
    /\ Len(localStorage.doc.e) = 2

\* C20: the decision of every annotation of the in-memory store is '',
\* 'accept' or 'reject'.
DecisionDomain ==
    \A i \in 1..Len(annotations) :
        annotations[i].v.p.annotation \in {EmptyStr, Str(ACCEPT), Str(REJECT)}

\* the value of a record's field in an export: null when it is missing
OrNull(v) == IF Missing(v) THEN Null ELSE v

\* C21: every exported entry has the density and the suitability of the
\* current record of its key, 0 included, null only when the record has none,
\* and the identifying triple of that record.
ExportProjection ==
    download.file # "none" =>
        \A j \in 1..Len(download.doc) :
            LET item == download.doc[j]
                rows == AnalyzedOccurrences(uploadResult).e
                occurrence == Lookup(OccurrenceMap(rows), download.keys[j])
            IN  HasKey(OccurrenceMap(rows), download.keys[j]) =>
                /\ item.density = OrNull(occurrence.p.density)
                /\ item.suitability = OrNull(occurrence.p.suitability)
                /\ Field(item, IF "AphiaID" \in DOMAIN item THEN "AphiaID" ELSE "aphiaid")
                      = OrNull(occurrence.p.aphiaid)
                /\ item.decimalLongitude = OrNull(occurrence.p.decimalLongitude)
                /\ item.decimalLatitude = OrNull(occurrence.p.decimalLatitude)

\* a string that is a decimal integer: digits only, at least one
NumericString(v) ==
    /\ v.t = "string"
    /\ v.s # << >>
    /\ \A i \in 1..Len(v.s) : IsDigit(v.s[i])

\* C22: in the legacy-format export new_AphiaID is the integer the alternative
\* of the annotation denotes when the alternative is a numeric string, and
\* null when it is empty or not numeric, digits followed by letters included.
NewAphiaIDOfNumeric ==
    download.file = "annotations_old_format.json" =>
        \A j \in 1..Len(download.doc) :
            LET item == download.doc[j]
                alternative == Lookup(annotations, download.keys[j]).p.alternative
            IN  item.new_AphiaID =
                    IF NumericString(alternative)
                    THEN Num(DigitsPrefix(alternative.s, 0, 0).value)
                    ELSE Null

\* C23: an export invoked while there is no result set (uploadResult is null
\* or has no analyzed_occurrences) hands out no document and leaves the state
\* of the application and the persisted item as they were.
ExportWithoutResultSet ==
    [][(/\ lastEvent'.op \in {"download", "downloadOld"}
        /\ ~Truthy(AnalyzedOccurrences(uploadResult))) =>
        /\ download' = NoDownload
        /\ UNCHANGED <<localStorage, annotations, annotationsLoaded, savePending,
                       mounted, uploadResult, uploadError, loading, files, url>>]_vars

\* the legacy export was invoked with a response that has no
\* analyzed_occurrences while the store holds two annotations, and no
\* document came out
NoDocumentWithoutResultSet ==
    /\ lastEvent.op = "downloadOld"
    /\ uploadResult = ResultNoOccurrences
    /\ download = NoDownload
    /\ Len(annotations) = 2
    /\ \A i \in 1..2 : annotations[i].v.p.annotation \in {Str(ACCEPT), Str(REJECT)}

\* C24: a save effect of one of two page instances leaves the serialization of
\* the whole map of that instance in the storage and the in-memory map of the
\* other instance as it was: an entry only the other instance has is in its
\* memory and not in the storage.
LastSaveWins ==
    [][lastEvent'.op = "save" =>
        /\ Persisted(localStorage', annotations')
        /\ background' = background
        /\ \A key \in KeysOf(background.annotations) \ KeysOf(annotations) :
              ~HasKey(localStorage'.doc.e, key)]_vars

\* both instances have loaded the persisted entry, each has edited another
\* key and saved; the storage holds the map of the instance that saved last,
\* without the edit of the other one
EditLostFromStorage ==
    /\ lastEvent.op = "save"
    /\ mounted /\ background.mounted
    /\ ~background.savePending
    /\ HasKey(annotations, StaleKey) /\ HasKey(background.annotations, StaleKey)
    /\ HasKey(annotations, Key3) /\ ~HasKey(annotations, Key1)
    /\ HasKey(background.annotations, Key1) /\ ~HasKey(background.annotations, Key3)
    /\ Persisted(localStorage, annotations)
    /\ ~HasKey(localStorage.doc.e, Key1)

\* C25: the mount effects write nothing to the storage; every write happens
\* with annotationsLoaded set; and the first write after a load that took a
\* map from the storage is the serialization of that migrated map, with every
\* entry of it.
NoSaveBeforeLoad ==
    [][/\ ~mounted => localStorage' = localStorage
       /\ localStorage' # localStorage => annotationsLoaded
       /\ (lastEvent.op = "load" /\ savePending /\ lastEvent'.op = "save") =>
             LET migrated == Migrate(JSONparse(localStorage))
             IN  /\ annotations = migrated
                 /\ Persisted(localStorage', migrated)
                 /\ KeysOf(migrated) = KeysOf(localStorage'.doc.e)]_vars

\* the first write of a session that loaded a legacy blob of three entries:
\* the storage holds the three migrated entries
FirstWriteAfterLoad ==
    /\ lastEvent.op = "save"
    /\ uploadResult = Null /\ ~files /\ ~url /\ ~uploadError /\ ~loading
    /\ Len(annotations) = 3
    /\ Lookup(annotations, Key1) = Annotation(Str(ACCEPT), EmptyStr, EmptyStr)
    /\ Lookup(annotations, StaleKey) = Annotation(Str(REJECT), EmptyStr, EmptyStr)
    /\ Lookup(annotations, Key3) = Annotation(EmptyStr, Str(<<"7", "a">>), EmptyStr)
    /\ Persisted(localStorage, annotations)

\* the last record of the result set with the given key
LastRecord(rows, key) ==
    rows[CHOOSE i \in 1..Len(rows) :
            /\ getAnnotationKey(rows[i]) = key
            /\ \A j \in (i + 1)..Len(rows) : getAnnotationKey(rows[j]) # key]

\* C26: an export has at most one entry per stored annotation, also when
\* several records of the result set have the key of the annotation, and the
\* name, density and suitability of the entry are those the export takes
\* from the last record with that key.
OneEntryPerAnnotation ==
    download.file # "none" =>
        LET rows == AnalyzedOccurrences(uploadResult).e
            doc == download.doc
        IN  /\ Len(doc) <= Len(annotations)
            /\ \A i, j \in 1..Len(doc) : i # j => download.keys[i] # download.keys[j]
            /\ \A j \in 1..Len(doc) :
                  /\ HasKey(annotations, download.keys[j])
                  /\ download.keys[j] \in RowKeys =>
                        LET occurrence == LastRecord(rows, download.keys[j])
                        IN  /\ doc[j].scientificName = OrElse(occurrence.p.scientificName, Null)
                            /\ doc[j].density = OrElse(occurrence.p.density, Null)
                            /\ doc[j].suitability = OrElse(occurrence.p.suitability, Null)

\* an export of a result set with two records of one key: the one entry of
\* that key has the name and density of the second of them
ExportedFromLastRecord ==
    /\ download.file = "annotations.json"
    /\ uploadResult = ResultOf(<<Occ2, Occ3, Occ1>>)
    /\ Len(annotations) = 2
    /\ Len(download.doc) = 2
    /\ \E j \in 1..2 :
          /\ download.keys[j] = Key1
          /\ download.doc[j].scientificName = Occ1.p.scientificName
          /\ download.doc[j].density = Occ1.p.density
          /\ download.doc[j].density # Occ2.p.density

====
